---- MODULE Spec2Model ----
(***************************************************************************)
(* ziap/socket-project: a priority-steerable file transfer service.        *)
(*                                                                         *)
(*   common/src/lib.rs   the wire codec (FileList, Chunk), the per-file    *)
(*                       handlers and priority_list::merge                 *)
(*   server/src/main.rs  WorkerContext::execute (one Connection Session),  *)
(*                       the worker pool and the accept/dispatch loop      *)
(*   client/src/main.rs  read_input and the client's round loop            *)
(*                                                                         *)
(* Three specifications share this module:                                 *)
(*   Spec       one connection: execute on the server against main on the  *)
(*              client, over two byte streams (the TCP connection)         *)
(*   SpecPool   the worker threads, the idle channel, the job channels and *)
(*              the dispatcher, with up to MaxConn connections             *)
(*   SpecCodec  the pure functions of common/src/lib.rs applied to inputs  *)
(*              drawn from bounded sets                                    *)
(***************************************************************************)
EXTENDS Integers, Sequences, FiniteSets, TLC

(***************************************************************************)
(* Program constants.                                                      *)
(***************************************************************************)
\* the fixed chunk size: buf: [u8; 1024]
ChunkSize == 1024
\* the end-of-file flag of the chunk header: 1 << 15
EndFlag == 32768
\* the mask Chunk::recv applies to the header: 0x3ff, as a modulus
LenMask == 1024
\* mem::size_of::<usize>() and mem::size_of::<u64>() on a 64-bit target
WordBytes == 8
\* the weights read_input assigns
NORMAL == 1
HIGH == 4
CRITICAL == 10

(***************************************************************************)
(* Bounds of the model.                                                    *)
(***************************************************************************)
\* the longest served file holds this many full chunks and a tail
MaxFullChunks == 4
\* the bytes of the tail of a served file that is no whole number of chunks
TailBytes == 500
\* chunk packets the connection buffers between the server and the client
MaxChunksInFlight == 1
\* priority vectors the connection buffers between the client and the server
MaxVectorsInFlight == 1
\* worker threads of the pool (THREAD_COUNT)
NumWorkers == 2
\* connections attempted over the life of the server
MaxConn == 4
\* entries of a catalog that is encoded and decoded on its own
MaxCatalogLen == 2

(***************************************************************************)
(* Helpers on byte sequences.                                              *)
(***************************************************************************)
Min(a, b) == IF a < b THEN a ELSE b

Drop(s, n) == SubSeq(s, n + 1, Len(s))

Take(s, n) == SubSeq(s, 1, n)

\* n.to_be_bytes() for a w-byte unsigned integer
RECURSIVE to_be_bytes(_, _)
to_be_bytes(n, w) ==
    IF w = 0 THEN <<>> ELSE Append(to_be_bytes(n \div 256, w - 1), n % 256)

\* usize::from_be_bytes / u64::from_be_bytes / u16::from_be_bytes
RECURSIVE from_be_bytes(_)
from_be_bytes(b) ==
    IF b = <<>> THEN 0
    ELSE from_be_bytes(Take(b, Len(b) - 1)) * 256 + b[Len(b)]

\* str::splitn(n, '\0'): at most n fields, the last one holding the rest
RECURSIVE splitn(_, _)
splitn(s, n) ==
    IF n = 0 THEN <<>>
    ELSE IF n = 1 \/ ~(\E k \in 1..Len(s) : s[k] = 0) THEN <<s>>
    ELSE LET k == CHOOSE k \in 1..Len(s) :
                      s[k] = 0 /\ \A j \in 1..(k - 1) : s[j] # 0
         IN  <<Take(s, k - 1)>> \o splitn(Drop(s, k), n - 1)

(***************************************************************************)
(* common/src/lib.rs: impl Packet for FileList.                            *)
(* A FileList is a sequence of [name |-> bytes, size |-> u64].             *)
(***************************************************************************)
RECURSIVE SizesBytes(_)
SizesBytes(list) ==
    IF list = <<>> THEN <<>>
    ELSE to_be_bytes(list[1].size, WordBytes) \o SizesBytes(Drop(list, 1))

\* fold(String::new(), |a, (name, _)| a + "\0" + name)
RECURSIVE NamesJoined(_)
NamesJoined(list) ==
    IF list = <<>> THEN <<>>
    ELSE NamesJoined(Take(list, Len(list) - 1)) \o <<0>> \o list[Len(list)].name

\* FileList::send: the bytes written to the stream, and whether the slice
\* &names.as_bytes()[1..] panicked (it does when names is empty)
FileList_send(list) ==
    LET head  == to_be_bytes(Len(list), WordBytes) \o SizesBytes(list)
        names == NamesJoined(list)
    IN  IF Len(names) < 1
        THEN [panic |-> TRUE, bytes |-> head]
        ELSE LET bytes == Drop(names, 1)
             IN  [panic |-> FALSE,
                  bytes |-> head \o to_be_bytes(Len(bytes), WordBytes) \o bytes]

\* FileList::recv on the bytes available in the stream: ok is FALSE when a
\* read_exact cannot be satisfied by them
FileList_recv(stream) ==
    IF Len(stream) < WordBytes THEN [ok |-> FALSE, list |-> <<>>, rest |-> stream]
    ELSE
    LET len == from_be_bytes(Take(stream, WordBytes))
        s1  == Drop(stream, WordBytes)
    IN  IF Len(s1) < len * WordBytes + WordBytes
        THEN [ok |-> FALSE, list |-> <<>>, rest |-> stream]
        ELSE
        LET filesizes  == [k \in 1..len |->
                              from_be_bytes(SubSeq(s1, (k - 1) * WordBytes + 1,
                                                   k * WordBytes))]
            s2         == Drop(s1, len * WordBytes)
            names_size == from_be_bytes(Take(s2, WordBytes))
            s3         == Drop(s2, WordBytes)
        IN  IF Len(s3) < names_size
            THEN [ok |-> FALSE, list |-> <<>>, rest |-> stream]
            ELSE
            LET filenames == splitn(Take(s3, names_size), len)
                n         == Min(Len(filenames), len)
            IN  [ok   |-> TRUE,
                 list |-> [k \in 1..n |->
                              [name |-> filenames[k], size |-> filesizes[k]]],
                 rest |-> Drop(s3, names_size)]

(***************************************************************************)
(* The files.  The server's file i holds FileByte(i, o) at offset o (from  *)
(* 1).  A file that is written is kept as its length and whether its bytes *)
(* are, so far, the bytes of the server's file i at the same offsets.      *)
(***************************************************************************)
FileByte(i, o) == (o * 7 + i * 3) % 251

\* file.read(&mut buf) with buf of 1024 bytes, on a regular file of the given
\* size with the handle at pos: the bytes read
file_read(i, size, pos) ==
    [k \in 1..Min(ChunkSize, size - pos) |-> FileByte(i, pos + k)]

EmptyFile == [len |-> 0, same |-> TRUE]

\* file.write_all(data), for the copy of the server's file i
write_all(file, data, i) ==
    [len  |-> file.len + Len(data),
     same |-> /\ file.same
              /\ \A k \in 1..Len(data) : data[k] = FileByte(i, file.len + k)]

(***************************************************************************)
(* common/src/lib.rs: Chunk.  A chunk is [len |-> usize, data |-> the      *)
(* bytes buf[..len]]: no code reads buf beyond len.                        *)
(***************************************************************************)
\* a variant that takes only an empty read for the end of the file
Chunk_end_empty(chunk) == chunk.len = 0

Chunk_end(chunk) == chunk.len < ChunkSize

\* Chunk::read: one read of up to 1024 bytes at the handle's position
Chunk_read(i, size, pos) ==
    LET data == file_read(i, size, pos)
    IN  [len |-> Len(data), data |-> data]

\* a variant that writes the length without the end flag
ChunkHeader_noflag(chunk) == IF Chunk_end(chunk) THEN chunk.len ELSE 0

\* the 16-bit header Chunk::send writes: (1 << 15) | self.len as u16
ChunkHeader(chunk) ==
    IF Chunk_end(chunk) THEN EndFlag + (chunk.len % EndFlag) ELSE 0

\* Chunk::send: the bytes written to the stream
Chunk_send(chunk) == to_be_bytes(ChunkHeader(chunk), 2) \o chunk.data

\* a variant that keeps only the low byte of the length (mask 0xff)
HeaderLen_lowbyte(header) ==
    IF (header \div EndFlag) # 0 THEN header % 256 ELSE ChunkSize

\* the payload length Chunk::recv takes from a header
HeaderLen(header) ==
    IF (header \div EndFlag) # 0 THEN header % LenMask ELSE ChunkSize

\* a variant that takes the payload from one byte too early in the stream
Chunk_recv_early(stream) ==
    IF Len(stream) < 2
    THEN [ok |-> FALSE, chunk |-> [len |-> 0, data |-> <<>>], rest |-> stream]
    ELSE
    LET header == from_be_bytes(Take(stream, 2))
        len    == HeaderLen(header)
    IN  IF Len(stream) < 2 + len
        THEN [ok |-> FALSE, chunk |-> [len |-> 0, data |-> <<>>], rest |-> stream]
        ELSE [ok    |-> TRUE,
              chunk |-> [len |-> len, data |-> SubSeq(stream, 2, 1 + len)],
              rest  |-> Drop(stream, 2 + len)]

\* Chunk::recv on the bytes available in the stream: ok is FALSE when a
\* read_exact cannot be satisfied by them
Chunk_recv(stream) ==
    IF Len(stream) < 2
    THEN [ok |-> FALSE, chunk |-> [len |-> 0, data |-> <<>>], rest |-> stream]
    ELSE
    LET header == from_be_bytes(Take(stream, 2))
        len    == HeaderLen(header)
    IN  IF Len(stream) < 2 + len
        THEN [ok |-> FALSE, chunk |-> [len |-> 0, data |-> <<>>], rest |-> stream]
        ELSE [ok    |-> TRUE,
              chunk |-> [len |-> len, data |-> SubSeq(stream, 3, 2 + len)],
              rest  |-> Drop(stream, 2 + len)]

\* Chunk::write: the file after write_all(&buf[..len])
Chunk_write(chunk, file, i) == write_all(file, chunk.data, i)

(***************************************************************************)
(* common/src/lib.rs: handlers and priority lists.                         *)
(***************************************************************************)
\* DownloadableFile { done: false, file: None }; an open handle carries its
\* position
initialize_handlers(len) ==
    [k \in 1..len |-> [done |-> FALSE, open |-> FALSE, pos |-> 0]]

priority_list_new(len) == [k \in 1..len |-> 0]

\* the loop of priority_list::merge from slot i on
RECURSIVE MergeLoop(_, _, _, _)
MergeLoop(current, other, i, modified) ==
    IF i > Len(current) THEN [list |-> current, modified |-> modified]
    ELSE IF current[i] = 0 /\ other[i] # 0
         THEN MergeLoop([current EXCEPT ![i] = other[i]], other, i + 1,
                        modified + 1)
         ELSE MergeLoop(current, other, i + 1, modified)

\* a variant that lets a nonzero value of other overwrite any slot
RECURSIVE MergeLoop_overwrite(_, _, _, _)
MergeLoop_overwrite(current, other, i, modified) ==
    IF i > Len(current) THEN [list |-> current, modified |-> modified]
    ELSE IF other[i] # 0
         THEN MergeLoop_overwrite([current EXCEPT ![i] = other[i]], other, i + 1,
                                  modified + 1)
         ELSE MergeLoop_overwrite(current, other, i + 1, modified)

merge_overwrite(current, other) == MergeLoop_overwrite(current, other, 1, 0)

\* a variant that counts every slot in which other differs from current
merge_changed(current, other) ==
    [list |-> MergeLoop(current, other, 1, 0).list,
     modified |-> Cardinality({i \in 1..Len(current) : other[i] # current[i]})]

\* priority_list::merge: the merged list and the count it returns
merge(current, other) == MergeLoop(current, other, 1, 0)

(***************************************************************************)
(* State.                                                                  *)
(***************************************************************************)
VARIABLES
    \* ---- one connection (Spec) ----
    catalog,            \* the server's file_list, built once by get_files
    s2c,                \* bytes written by the server, not yet read by the client
    c2s,                \* bytes written by the client, not yet read by the server
    s_pc,               \* where execute stands
    s_files,            \* execute: files (the handlers)
    s_priorities,       \* execute: priorities
    s_next_priorities,  \* execute: next_priorities
    s_to_download,      \* execute: to_download
    s_idx,              \* execute: the index the for loop stands at
    s_k,                \* execute: chunks sent in the current quantum
    c_pc,               \* where the client's main stands
    c_downloadables,    \* main: downloadables
    c_files,            \* main: files (the handlers)
    c_priorities,       \* main: priorities
    c_next_priorities,  \* main: next_priorities
    c_to_download,      \* main: to_download
    c_idx,              \* main: idx
    c_k,                \* main: chunks received in the current quantum
    c_progress,         \* main: progress
    out,                \* the files of the output directory, each as its
                        \* length and its agreement with the server's file
    \* ---- history of the connection ----
    s_pass,             \* index of the server's pass within its round
    c_pass,             \* index of the client's pass within its round
    s_donePass,         \* per file: the server pass in which it became done
    c_donePass,         \* per file: the client pass in which it became done
    s_round,            \* per file: the server round that activated it
    c_round,            \* per file: the client round that activated it
    s_sent,             \* per file: the lengths of the chunks the server sent
    tags,               \* per chunk in s2c: the index the server was servicing
    lockstep,           \* every chunk so far was received under the index
                        \* and with the length it was sent with
    ctl_seen,           \* the state of the control file at the last round head
    wire,               \* every chunk the server wrote, in the order written:
                        \* its index, round, pass, file offset and length
    c_merges,           \* per vector in c2s: the list and the count the client's
                        \* merge returned when it sent the vector
    \* ---- the worker pool (SpecPool) ----
    conn,               \* per connection: where it is
    backlog,            \* the listen backlog: connections not yet accepted
    main_pc,            \* where the server's main thread stands
    stream,             \* main: the connection it accepted
    worker_id,          \* main: the id it took from the idle channel
    idle,               \* the idle channel (sender, receiver)
    jobs,               \* per worker: its job channel (worker_sender, worker_receiver)
    w_pc,               \* per worker: where its thread stands
    w_job,              \* per worker: the connection it executes
    \* ---- history of the pool ----
    w_announced,        \* per worker: the ids it sent on the idle channel
    w_errs,             \* per worker: the sessions that ended with Err
    w_last,             \* per worker: how its last session ended
    \* ---- the codec on its own (SpecCodec) ----
    t_pc,               \* the step the packet is at
    t_input,            \* the packet that is sent
    t_wire,             \* the bytes in the stream
    t_output            \* what recv returned

connVars == <<catalog, s2c, c2s, s_pc, s_files, s_priorities, s_next_priorities,
              s_to_download, s_idx, s_k, c_pc, c_downloadables, c_files,
              c_priorities, c_next_priorities, c_to_download, c_idx, c_k,
              c_progress, out, s_pass, c_pass, s_donePass, c_donePass, s_round,
              c_round, s_sent, tags, lockstep, ctl_seen, wire, c_merges>>

poolVars == <<conn, backlog, main_pc, stream, worker_id, idle, jobs, w_pc,
              w_job, w_announced, w_errs, w_last>>

codecVars == <<t_pc, t_input, t_wire, t_output>>

vars == <<connVars, poolVars, codecVars>>

\* what the steps of one connection leave alone
aside == <<catalog, poolVars, codecVars>>

(***************************************************************************)
(* The environment of one connection: the served directory and the         *)
(* control file.                                                           *)
(***************************************************************************)
\* the names of the files of the served directory: "a" and "b c"
FileNames == << <<97>>, <<98, 32, 99>> >>

NumFiles == Len(FileNames)

\* the sizes a served file may have: empty, less than a chunk, exactly one
\* chunk, several chunks and a tail
SizeSet == {0, TailBytes, ChunkSize, MaxFullChunks * ChunkSize + TailBytes}

\* get_files: the catalog of an unreadable directory is empty
Catalogs ==
    {<<>>} \cup
    {[k \in 1..NumFiles |-> [name |-> FileNames[k], size |-> sz[k]]] :
        sz \in [1..NumFiles -> SizeSet]}

\* the keyword the control file gives for a file; "" when it has no line with
\* a recognised keyword for it
Keywords == {"", "NORMAL", "HIGH", "CRITICAL"}

\* the control file: present with a keyword per file, present but not
\* openable, or absent
ControlFiles(n) ==
    {[status |-> "ok", lines |-> l] : l \in [1..n -> Keywords]} \cup
    {[status |-> st, lines |-> [k \in 1..n |-> ""]] :
        st \in {"unreadable", "missing"}}

Weight(kw) ==
    CASE kw = "NORMAL"   -> NORMAL
      [] kw = "HIGH"     -> HIGH
      [] kw = "CRITICAL" -> CRITICAL

\* read_input: out after the lines of the control file were applied
read_input(ctl, buf) ==
    IF ctl.status = "ok"
    THEN [k \in 1..Len(buf) |->
             IF ctl.lines[k] = "" THEN buf[k] ELSE Weight(ctl.lines[k])]
    ELSE buf

(***************************************************************************)
(* Spec: the state after the server accepted the connection.               *)
(***************************************************************************)
\* the worker pool, not started
PoolAtRest ==
    /\ conn = <<>>
    /\ backlog = <<>>
    /\ main_pc = "off"
    /\ stream = 0
    /\ worker_id = 0
    /\ idle = <<>>
    /\ jobs = <<>>
    /\ w_pc = <<>>
    /\ w_job = <<>>
    /\ w_announced = <<>>
    /\ w_errs = <<>>
    /\ w_last = <<>>

\* no packet under test
CodecAtRest ==
    /\ t_pc = "off"
    /\ t_input = <<>>
    /\ t_wire = <<>>
    /\ t_output = <<>>

\* the state in which execute is called and the client has connected, for
\* the catalogs get_files may have built
ConnInit(catalogs) ==
    /\ PoolAtRest
    /\ CodecAtRest
    /\ catalog \in catalogs
    /\ s2c = <<>>
    /\ c2s = <<>>
    /\ s_pc = "send_catalog"
    /\ s_files = <<>>
    /\ s_priorities = <<>>
    /\ s_next_priorities = <<>>
    /\ s_to_download = 0
    /\ s_idx = 1
    /\ s_k = 0
    /\ c_pc = "recv_catalog"
    /\ c_downloadables = <<>>
    /\ c_files = <<>>
    /\ c_priorities = <<>>
    /\ c_next_priorities = <<>>
    /\ c_to_download = 0
    /\ c_idx = 1
    /\ c_k = 0
    /\ c_progress = <<>>
    /\ out = <<>>
    /\ s_pass = 0
    /\ c_pass = 0
    /\ s_donePass = [k \in 1..Len(catalog) |-> -1]
    /\ c_donePass = [k \in 1..Len(catalog) |-> -1]
    /\ s_round = [k \in 1..Len(catalog) |-> 0]
    /\ c_round = [k \in 1..Len(catalog) |-> 0]
    /\ s_sent = [k \in 1..Len(catalog) |-> <<>>]
    /\ tags = <<>>
    /\ lockstep = TRUE
    /\ ctl_seen = "none"
    /\ c_merges = <<>>
    /\ wire = <<>>

Init == ConnInit(Catalogs)

srvHist == <<s_pass, s_donePass, s_round, s_sent>>
cliHist == <<c_pass, c_donePass, c_round, lockstep, ctl_seen>>
srvState == <<s_pc, s_files, s_priorities, s_next_priorities, s_to_download,
              s_idx, s_k>>
cliState == <<c_pc, c_downloadables, c_files, c_priorities, c_next_priorities,
              c_to_download, c_idx, c_k, c_progress, out>>

(***************************************************************************)
(* server/src/main.rs: WorkerContext::execute.                             *)
(***************************************************************************)
\* self.file_list.send(&mut connection)?, then the handlers and the lists
S_SendCatalog ==
    /\ s_pc = "send_catalog"
    /\ LET r == FileList_send(catalog)
       IN  /\ s2c' = s2c \o r.bytes
           /\ IF r.panic
              THEN /\ s_pc' = "panicked"
                   /\ UNCHANGED <<s_files, s_priorities, s_next_priorities>>
              ELSE /\ s_pc' = "read"
                   /\ s_files' = initialize_handlers(Len(catalog))
                   /\ s_priorities' = priority_list_new(Len(catalog))
                   /\ s_next_priorities' = priority_list_new(Len(catalog))
    /\ UNCHANGED <<aside, wire, c_merges, c2s, s_to_download, s_idx, s_k, cliState, srvHist,
                   cliHist, tags>>

\* rounds that activated a file so far, in the history
Rounds(rounds) ==
    Cardinality({rounds[k] : k \in 1..Len(rounds)} \ {0})

\* the history of the rounds after a merge: the files it activated belong to
\* a new round
Activated(before, after, rounds) ==
    [k \in 1..Len(rounds) |->
        IF before[k] = 0 /\ after[k] # 0 THEN Rounds(rounds) + 1 ELSE rounds[k]]

\* connection.read_exact(&mut next_priorities)?, merge, and the while test
S_ReadPriorities ==
    /\ s_pc = "read"
    /\ Len(c2s) >= Len(catalog)
    /\ LET next == Take(c2s, Len(catalog))
           m    == merge(s_priorities, next)
       IN  /\ c2s' = Drop(c2s, Len(catalog))
           /\ s_next_priorities' = next
           /\ s_priorities' = m.list
           /\ s_to_download' = m.modified
           /\ s_round' = Activated(s_priorities, m.list, s_round)
           /\ s_pc' = IF m.modified > 0 THEN "for" ELSE "read"
    /\ c_merges' = Drop(c_merges, 1)
    /\ s_idx' = 1
    /\ s_k' = 0
    /\ s_pass' = 0
    /\ UNCHANGED <<aside, wire, s2c, s_files, cliState, s_donePass, s_sent, cliHist,
                   tags>>

\* read_exact fails once the client closed the connection: execute returns Err
S_ReadFail ==
    /\ s_pc = "read"
    /\ c_pc = "exited"
    /\ Len(c2s) < Len(catalog)
    /\ s_pc' = "failed"
    /\ UNCHANGED <<aside, wire, c_merges, s2c, c2s, s_files, s_priorities, s_next_priorities,
                   s_to_download, s_idx, s_k, cliState, srvHist, cliHist, tags>>

\* if *priority == 0 || handler.done { continue; }
S_Skip ==
    /\ s_pc = "for"
    /\ s_idx <= Len(catalog)
    /\ s_priorities[s_idx] = 0 \/ s_files[s_idx].done
    /\ s_idx' = s_idx + 1
    /\ UNCHANGED <<aside, wire, c_merges, s2c, c2s, s_pc, s_files, s_priorities,
                   s_next_priorities, s_to_download, s_k, cliState, srvHist,
                   cliHist, tags>>

\* a variant that opens the file at every visit
get_or_insert_with_reopen(handler) == [handler EXCEPT !.open = TRUE, !.pos = 0]

\* handler.file.get_or_insert_with(|| File::open(path).unwrap())
get_or_insert_with(handler) ==
    IF handler.open THEN handler ELSE [handler EXCEPT !.open = TRUE, !.pos = 0]

S_Open ==
    /\ s_pc = "for"
    /\ s_idx <= Len(catalog)
    /\ s_priorities[s_idx] # 0 /\ ~s_files[s_idx].done
    /\ s_files' = [s_files EXCEPT ![s_idx] = get_or_insert_with(@)]
    /\ s_pc' = "quantum"
    /\ s_k' = 0
    /\ UNCHANGED <<aside, wire, c_merges, s2c, c2s, s_priorities, s_next_priorities,
                   s_to_download, s_idx, cliState, srvHist, cliHist, tags>>

\* a variant in which a read or a write leaves the position where it was
Advance_stuck(handler, len) == handler

\* file.read and file.write_all move the position of the handle by the
\* bytes read or written
Advance(handler, len) == [handler EXCEPT !.pos = @ + len]

\* a variant that marks the file done and keeps its handle
Finish_leak(handler) == [handler EXCEPT !.done = TRUE]

\* handler.done = true; drop(handler.file.take())
Finish(handler) == [handler EXCEPT !.done = TRUE, !.open = FALSE]

\* a variant that serves one chunk per file and pass, whatever the priority
QuantumOver_one(end, k, priority) == TRUE

\* a variant whose loop runs for _ in 0..=priority
QuantumOver_inclusive(end, k, priority) == end \/ k >= priority

\* whether the quantum loop is left after a chunk: a terminal chunk breaks it,
\* and for _ in 0..priority ends after priority chunks
QuantumOver(end, k, priority) == end \/ k + 1 >= priority

\* one turn of for _ in 0..*priority: Chunk::read, chunk.send, chunk.end()
S_Chunk ==
    /\ s_pc = "quantum"
    /\ Len(tags) < MaxChunksInFlight
    /\ \E chunk \in {Chunk_read(s_idx, catalog[s_idx].size,
                                 s_files[s_idx].pos)} :
       LET handler == s_files[s_idx]
           end     == Chunk_end(chunk)
           moved   == Advance(handler, chunk.len)
       IN  /\ s2c' = s2c \o Chunk_send(chunk)
           /\ tags' = Append(tags, [idx |-> s_idx, len |-> chunk.len])
           /\ s_sent' = [s_sent EXCEPT ![s_idx] = Append(@, chunk.len)]
           /\ wire' = Append(wire, [idx |-> s_idx, round |-> Rounds(s_round),
                                     pass |-> s_pass, off |-> handler.pos,
                                     len |-> chunk.len])
           /\ s_files' = [s_files EXCEPT
                             ![s_idx] = IF end THEN Finish(moved) ELSE moved]
           /\ s_to_download' = IF end THEN s_to_download - 1 ELSE s_to_download
           /\ s_donePass' = IF end THEN [s_donePass EXCEPT ![s_idx] = s_pass]
                            ELSE s_donePass
           /\ IF QuantumOver(end, s_k, s_priorities[s_idx])
              THEN s_pc' = "for" /\ s_idx' = s_idx + 1 /\ s_k' = 0
              ELSE s_pc' = "quantum" /\ s_idx' = s_idx /\ s_k' = s_k + 1
    /\ UNCHANGED <<aside, c_merges, c2s, s_priorities, s_next_priorities, cliState,
                   s_pass, s_round, cliHist>>

\* the for loop is over: while to_download > 0 runs another pass, or the
\* outer loop returns to the read
S_EndPass ==
    /\ s_pc = "for"
    /\ s_idx > Len(catalog)
    /\ IF s_to_download > 0
       THEN s_pc' = "for" /\ s_pass' = s_pass + 1
       ELSE s_pc' = "read" /\ s_pass' = s_pass
    /\ s_idx' = 1
    /\ UNCHANGED <<aside, wire, c_merges, s2c, c2s, s_files, s_priorities, s_next_priorities,
                   s_to_download, s_k, cliState, s_donePass, s_round, s_sent,
                   cliHist, tags>>

(***************************************************************************)
(* client/src/main.rs: main.                                               *)
(***************************************************************************)
\* FileList::recv(&mut stream)?, then the handlers, lists and progress
C_RecvCatalog ==
    /\ c_pc = "recv_catalog"
    /\ LET r == FileList_recv(s2c)
       IN  /\ r.ok
           /\ s2c' = r.rest
           /\ c_downloadables' = r.list
           /\ c_files' = initialize_handlers(Len(r.list))
           /\ c_priorities' = priority_list_new(Len(r.list))
           /\ c_next_priorities' = priority_list_new(Len(r.list))
           /\ c_progress' = [k \in 1..Len(r.list) |-> 0]
           /\ out' = [k \in 1..Len(r.list) |-> EmptyFile]
    /\ c_pc' = "round"
    /\ UNCHANGED <<aside, wire, c_merges, c2s, srvState, c_to_download, c_idx, c_k, srvHist,
                   cliHist, tags>>

\* a read_exact of FileList::recv fails: the server closed the connection
\* before the catalog was complete, and main returns the error
C_RecvCatalogFail ==
    /\ c_pc = "recv_catalog"
    /\ s_pc \in {"panicked", "failed"}
    /\ ~FileList_recv(s2c).ok
    /\ c_pc' = "exited"
    /\ UNCHANGED <<aside, wire, c_merges, s2c, c2s, srvState, c_downloadables, c_files,
                   c_priorities, c_next_priorities, c_to_download, c_idx, c_k,
                   c_progress, out, srvHist, cliHist, tags>>

\* the head of the round loop: input_path.metadata()?.modified()?, read_input,
\* merge, stream.write_all(&priorities)? and the while test.  The control
\* file is what the user left it to be by now.
C_Round(ctl) ==
    /\ c_pc = "round"
    /\ Len(c2s) < MaxVectorsInFlight * Len(c_downloadables)
    /\ ctl_seen' = ctl.status
    /\ IF ctl.status = "missing"
       THEN /\ c_pc' = "exited"
            /\ UNCHANGED <<c2s, c_priorities, c_next_priorities, c_to_download,
                           c_round, c_merges>>
       ELSE LET next == read_input(ctl, c_next_priorities)
                m    == merge(c_priorities, next)
            IN  /\ c_next_priorities' = next
                /\ c_priorities' = m.list
                /\ c_to_download' = m.modified
                /\ c_round' = Activated(c_priorities, m.list, c_round)
                /\ c2s' = c2s \o m.list
                /\ c_merges' = Append(c_merges, m)
                /\ c_pc' = IF m.modified > 0 THEN "for" ELSE "round"
    /\ c_idx' = 1
    /\ c_k' = 0
    /\ c_pass' = 0
    /\ UNCHANGED <<aside, wire, s2c, srvState, c_downloadables, c_files, c_progress,
                   out, srvHist, c_donePass, lockstep, tags>>

\* if priority == 0 || handler.done { continue; }
C_Skip ==
    /\ c_pc = "for"
    /\ c_idx <= Len(c_downloadables)
    /\ c_priorities[c_idx] = 0 \/ c_files[c_idx].done
    /\ c_idx' = c_idx + 1
    /\ UNCHANGED <<aside, wire, c_merges, s2c, c2s, srvState, c_pc, c_downloadables, c_files,
                   c_priorities, c_next_priorities, c_to_download, c_k,
                   c_progress, out, srvHist, cliHist, tags>>

\* handler.file.get_or_insert_with(|| File::create(&paths[idx]).unwrap()):
\* File::create truncates the output file
C_Open ==
    /\ c_pc = "for"
    /\ c_idx <= Len(c_downloadables)
    /\ c_priorities[c_idx] # 0 /\ ~c_files[c_idx].done
    /\ c_files' = [c_files EXCEPT ![c_idx] = get_or_insert_with(@)]
    /\ out' = IF c_files[c_idx].open THEN out
              ELSE [out EXCEPT ![c_idx] = EmptyFile]
    /\ c_pc' = "quantum"
    /\ c_k' = 0
    /\ UNCHANGED <<aside, wire, c_merges, s2c, c2s, srvState, c_downloadables, c_priorities,
                   c_next_priorities, c_to_download, c_idx, c_progress, srvHist,
                   cliHist, tags>>

\* one turn of for _ in 0..priority: Chunk::recv, progress, chunk.write
C_Chunk ==
    /\ c_pc = "quantum"
    /\ \E r \in {Chunk_recv(s2c)} :
       LET handler == c_files[c_idx]
           end     == Chunk_end(r.chunk)
           moved   == Advance(handler, r.chunk.len)
       IN  /\ r.ok
           /\ s2c' = r.rest
           /\ c_progress' = [c_progress EXCEPT ![c_idx] = @ + r.chunk.len]
           /\ out' = [out EXCEPT ![c_idx] = Chunk_write(r.chunk, @, c_idx)]
           /\ c_files' = [c_files EXCEPT
                             ![c_idx] = IF end THEN Finish(moved) ELSE moved]
           /\ c_to_download' = IF end THEN c_to_download - 1 ELSE c_to_download
           /\ c_donePass' = IF end THEN [c_donePass EXCEPT ![c_idx] = c_pass]
                            ELSE c_donePass
           /\ lockstep' = (lockstep /\ tags[1].idx = c_idx
                                     /\ tags[1].len = r.chunk.len)
           /\ IF QuantumOver(end, c_k, c_priorities[c_idx])
              THEN c_pc' = "for" /\ c_idx' = c_idx + 1 /\ c_k' = 0
              ELSE c_pc' = "quantum" /\ c_idx' = c_idx /\ c_k' = c_k + 1
    /\ tags' = Drop(tags, 1)
    /\ UNCHANGED <<aside, wire, c_merges, c2s, srvState, c_downloadables, c_priorities,
                   c_next_priorities, srvHist, c_pass, c_round, ctl_seen>>

\* the for loop is over (the progress bars are drawn): while to_download > 0
\* runs another pass, or the round loop returns to its head
C_EndPass ==
    /\ c_pc = "for"
    /\ c_idx > Len(c_downloadables)
    /\ IF c_to_download > 0
       THEN c_pc' = "for" /\ c_pass' = c_pass + 1
       ELSE c_pc' = "round" /\ c_pass' = c_pass
    /\ c_idx' = 1
    /\ UNCHANGED <<aside, wire, c_merges, s2c, c2s, srvState, c_downloadables, c_files,
                   c_priorities, c_next_priorities, c_to_download, c_k,
                   c_progress, out, srvHist, c_donePass, c_round, lockstep,
                   ctl_seen, tags>>

Next ==
    \/ S_SendCatalog
    \/ S_ReadPriorities
    \/ S_ReadFail
    \/ S_Skip
    \/ S_Open
    \/ S_Chunk
    \/ S_EndPass
    \/ C_RecvCatalog
    \/ C_RecvCatalogFail
    \/ \E ctl \in ControlFiles(Len(c_downloadables)) : C_Round(ctl)
    \/ C_Skip
    \/ C_Open
    \/ C_Chunk
    \/ C_EndPass

Spec == Init /\ [][Next]_vars

\* the steps of execute, and the steps of a pass of the client's main
ServerNext ==
    \/ S_SendCatalog
    \/ S_ReadPriorities
    \/ S_ReadFail
    \/ S_Skip
    \/ S_Open
    \/ S_Chunk
    \/ S_EndPass

ClientPass ==
    \/ C_Skip
    \/ C_Open
    \/ C_Chunk
    \/ C_EndPass

\* the worker's thread and the client's process each run whenever they are
\* not blocked in a read or a write; when the client starts and when the
\* control file changes is up to the user
\* the served directory of the runs checked for progress: unreadable, or a
\* file of one chunk and a file of three, in either order
LiveCatalogs ==
    {<<>>} \cup
    {[k \in 1..NumFiles |->
         [name |-> FileNames[k],
          size |-> IF k = big THEN 2 * ChunkSize + TailBytes ELSE TailBytes]] :
        big \in 1..NumFiles}

LiveInit == ConnInit(LiveCatalogs)

SpecLive ==
    LiveInit /\ [][Next]_vars /\ WF_vars(ServerNext) /\ WF_vars(ClientPass)

(***************************************************************************)
(* server/src/main.rs: main, the worker threads and the dispatcher.        *)
(*                                                                         *)
(* A connection is "new" (not attempted), "backlog" (established, in the   *)
(* listen backlog), "aborted" (incoming() yielded Err for it), "accepted"  *)
(* (held by main), "queued" (in a job channel), "serving" (execute runs on *)
(* it) or "closed" (its TcpStream was dropped).                            *)
(*                                                                         *)
(* A worker is at "start" (spawned), "recv" (in worker_receiver.recv()),   *)
(* in execute at "catalog", "read" or "transfer", at "returned" (execute   *)
(* returned Err) or "dead" (its thread panicked).                          *)
(***************************************************************************)
Workers == 1..NumWorkers

Conns == 1..MaxConn

Executing == {"catalog", "read", "transfer"}

\* one connection, not started
ConnAtRest ==
    /\ s2c = <<>>
    /\ c2s = <<>>
    /\ s_pc = "off"
    /\ s_files = <<>>
    /\ s_priorities = <<>>
    /\ s_next_priorities = <<>>
    /\ s_to_download = 0
    /\ s_idx = 1
    /\ s_k = 0
    /\ c_pc = "off"
    /\ c_downloadables = <<>>
    /\ c_files = <<>>
    /\ c_priorities = <<>>
    /\ c_next_priorities = <<>>
    /\ c_to_download = 0
    /\ c_idx = 1
    /\ c_k = 0
    /\ c_progress = <<>>
    /\ out = <<>>
    /\ s_pass = 0
    /\ c_pass = 0
    /\ s_donePass = <<>>
    /\ c_donePass = <<>>
    /\ s_round = <<>>
    /\ c_round = <<>>
    /\ s_sent = <<>>
    /\ tags = <<>>
    /\ lockstep = TRUE
    /\ ctl_seen = "none"
    /\ c_merges = <<>>
    /\ wire = <<>>

\* the catalogs get_files may build for the pool: none of an unreadable or
\* empty directory, or one of two files
PoolCatalogs ==
    {<<>>,
     [k \in 1..NumFiles |-> [name |-> FileNames[k], size |-> TailBytes]]}

\* main after the spawn loop and the bind: every worker thread is spawned
PoolInit ==
    /\ ConnAtRest
    /\ CodecAtRest
    /\ catalog \in PoolCatalogs
    /\ conn = [c \in Conns |-> "new"]
    /\ backlog = <<>>
    /\ main_pc = "accept"
    /\ stream = 0
    /\ worker_id = 0
    /\ idle = <<>>
    /\ jobs = [w \in Workers |-> <<>>]
    /\ w_pc = [w \in Workers |-> "start"]
    /\ w_job = [w \in Workers |-> 0]
    /\ w_announced = [w \in Workers |-> 0]
    /\ w_errs = [w \in Workers |-> 0]
    /\ w_last = [w \in Workers |-> "none"]

\* what the steps of the pool leave alone
apart == <<connVars, codecVars>>

\* a client connects: the connection waits in the listen backlog; the
\* connections are numbered in the order in which they are established
Connect(c) ==
    /\ conn[c] = "new"
    /\ \A d \in Conns : d < c => conn[d] # "new"
    /\ conn' = [conn EXCEPT ![c] = "backlog"]
    /\ backlog' = Append(backlog, c)
    /\ UNCHANGED <<apart, main_pc, stream, worker_id, idle, jobs, w_pc, w_job,
                   w_announced, w_errs, w_last>>

\* for stream in listener.incoming(): Ok(stream)
Main_Accept ==
    /\ main_pc = "accept"
    /\ backlog # <<>>
    /\ stream' = Head(backlog)
    /\ backlog' = Tail(backlog)
    /\ conn' = [conn EXCEPT ![Head(backlog)] = "accepted"]
    /\ main_pc' = "recv"
    /\ UNCHANGED <<apart, worker_id, idle, jobs, w_pc, w_job, w_announced,
                   w_errs, w_last>>

\* for stream in listener.incoming(): Err(err), logged
Main_AcceptErr ==
    /\ main_pc = "accept"
    /\ backlog # <<>>
    /\ backlog' = Tail(backlog)
    /\ conn' = [conn EXCEPT ![Head(backlog)] = "aborted"]
    /\ UNCHANGED <<apart, main_pc, stream, worker_id, idle, jobs, w_pc, w_job,
                   w_announced, w_errs, w_last>>

\* a variant that picks a worker without waiting for the idle channel
Main_IdleRecv_any ==
    /\ main_pc = "recv"
    /\ worker_id' \in Workers
    /\ idle' = idle
    /\ main_pc' = "send"
    /\ UNCHANGED <<apart, conn, backlog, stream, jobs, w_pc, w_job, w_announced,
                   w_errs, w_last>>

\* let worker_id = receiver.recv().unwrap(): blocks while the channel is empty
Main_IdleRecv ==
    /\ main_pc = "recv"
    /\ idle # <<>>
    /\ worker_id' = Head(idle)
    /\ idle' = Tail(idle)
    /\ main_pc' = "send"
    /\ UNCHANGED <<apart, conn, backlog, stream, jobs, w_pc, w_job, w_announced,
                   w_errs, w_last>>

\* workers[worker_id].send(stream).unwrap(): the send fails, and main panics,
\* when the worker's receiver was dropped
Main_Dispatch ==
    /\ main_pc = "send"
    /\ IF w_pc[worker_id] = "dead"
       THEN /\ main_pc' = "panicked"
            /\ UNCHANGED <<conn, stream, worker_id, jobs>>
       ELSE /\ jobs' = [jobs EXCEPT ![worker_id] = Append(@, stream)]
            /\ conn' = [conn EXCEPT ![stream] = "queued"]
            /\ main_pc' = "accept"
            /\ stream' = 0
            /\ worker_id' = 0
    /\ UNCHANGED <<apart, backlog, idle, w_pc, w_job, w_announced, w_errs,
                   w_last>>

\* a variant that sends the id twice
W_Announce_twice(w) ==
    /\ w_pc[w] \in {"start", "returned"}
    /\ idle' = Append(Append(idle, w), w)
    /\ w_pc' = [w_pc EXCEPT ![w] = "recv"]
    /\ w_announced' = [w_announced EXCEPT ![w] = @ + 1]
    /\ UNCHANGED <<apart, conn, backlog, main_pc, stream, worker_id, jobs, w_job,
                   w_errs, w_last>>

\* local_sender.send(id).unwrap(), at the start of the thread and after each
\* execute that returned; the thread then waits in worker_receiver.recv()
W_Announce(w) ==
    /\ w_pc[w] \in {"start", "returned"}
    /\ idle' = Append(idle, w)
    /\ w_pc' = [w_pc EXCEPT ![w] = "recv"]
    /\ w_announced' = [w_announced EXCEPT ![w] = @ + 1]
    /\ UNCHANGED <<apart, conn, backlog, main_pc, stream, worker_id, jobs, w_job,
                   w_errs, w_last>>

\* a variant in which the worker sends its id when it takes a job, before it
\* executes it
W_TakeJob_announce(w) ==
    /\ w_pc[w] = "recv"
    /\ jobs[w] # <<>>
    /\ w_job' = [w_job EXCEPT ![w] = Head(jobs[w])]
    /\ jobs' = [jobs EXCEPT ![w] = Tail(@)]
    /\ conn' = [conn EXCEPT ![Head(jobs[w])] = "serving"]
    /\ w_pc' = [w_pc EXCEPT ![w] = "catalog"]
    /\ idle' = Append(idle, w)
    /\ UNCHANGED <<apart, backlog, main_pc, stream, worker_id, w_announced,
                   w_errs, w_last>>

\* while let Ok(job) = worker_receiver.recv() { ctx.execute(job) ...
W_TakeJob(w) ==
    /\ w_pc[w] = "recv"
    /\ jobs[w] # <<>>
    /\ w_job' = [w_job EXCEPT ![w] = Head(jobs[w])]
    /\ jobs' = [jobs EXCEPT ![w] = Tail(@)]
    /\ conn' = [conn EXCEPT ![Head(jobs[w])] = "serving"]
    /\ w_pc' = [w_pc EXCEPT ![w] = "catalog"]
    /\ UNCHANGED <<apart, backlog, main_pc, stream, worker_id, idle, w_announced,
                   w_errs, w_last>>

\* the worker's thread unwinds from a panic: its job is dropped, and nothing
\* of the thread's loop runs again
Panic(w) ==
    /\ w_pc' = [w_pc EXCEPT ![w] = "dead"]
    /\ conn' = [conn EXCEPT ![w_job[w]] = "closed"]
    /\ w_job' = [w_job EXCEPT ![w] = 0]
    /\ w_last' = [w_last EXCEPT ![w] = "panic"]
    /\ UNCHANGED w_errs

\* a variant in which the error ends the thread's loop
ReturnErr_fatal(w) ==
    /\ w_pc' = [w_pc EXCEPT ![w] = "dead"]
    /\ conn' = [conn EXCEPT ![w_job[w]] = "closed"]
    /\ w_job' = [w_job EXCEPT ![w] = 0]
    /\ w_last' = [w_last EXCEPT ![w] = "err"]
    /\ w_errs' = [w_errs EXCEPT ![w] = @ + 1]

\* execute returns Err(err) through a ?: its connection is dropped
ReturnErr(w) ==
    /\ w_pc' = [w_pc EXCEPT ![w] = "returned"]
    /\ conn' = [conn EXCEPT ![w_job[w]] = "closed"]
    /\ w_job' = [w_job EXCEPT ![w] = 0]
    /\ w_last' = [w_last EXCEPT ![w] = "err"]
    /\ w_errs' = [w_errs EXCEPT ![w] = @ + 1]

\* execute: self.file_list.send(&mut connection)? with every write succeeding
W_SendCatalog(w) ==
    /\ w_pc[w] = "catalog"
    /\ IF FileList_send(catalog).panic
       THEN Panic(w)
       ELSE /\ w_pc' = [w_pc EXCEPT ![w] = "read"]
            /\ UNCHANGED <<conn, w_job, w_last, w_errs>>
    /\ UNCHANGED <<apart, backlog, main_pc, stream, worker_id, idle, jobs,
                   w_announced>>

\* execute: a priority vector is read that activates a file
W_ReadPriorities(w) ==
    /\ w_pc[w] = "read"
    /\ catalog # <<>>
    /\ w_pc' = [w_pc EXCEPT ![w] = "transfer"]
    /\ UNCHANGED <<apart, conn, backlog, main_pc, stream, worker_id, idle, jobs,
                   w_job, w_announced, w_errs, w_last>>

\* execute: to_download reached 0, the while loop ends
W_RoundDone(w) ==
    /\ w_pc[w] = "transfer"
    /\ w_pc' = [w_pc EXCEPT ![w] = "read"]
    /\ UNCHANGED <<apart, conn, backlog, main_pc, stream, worker_id, idle, jobs,
                   w_job, w_announced, w_errs, w_last>>

\* execute: File::open(path).unwrap() on a file that cannot be opened
W_OpenFails(w) ==
    /\ w_pc[w] = "transfer"
    /\ Panic(w)
    /\ UNCHANGED <<apart, backlog, main_pc, stream, worker_id, idle, jobs,
                   w_announced>>

\* execute: a write of the catalog, the read of the priority vector, or the
\* read or the send of a chunk fails
W_TransportErr(w) ==
    /\ w_pc[w] \in Executing
    /\ ReturnErr(w)
    /\ UNCHANGED <<apart, backlog, main_pc, stream, worker_id, idle, jobs,
                   w_announced>>

PoolNext ==
    \/ \E c \in Conns : Connect(c)
    \/ Main_Accept
    \/ Main_AcceptErr
    \/ Main_IdleRecv
    \/ Main_Dispatch
    \/ \E w \in Workers : W_Announce(w)
    \/ \E w \in Workers : W_TakeJob(w)
    \/ \E w \in Workers : W_SendCatalog(w)
    \/ \E w \in Workers : W_ReadPriorities(w)
    \/ \E w \in Workers : W_RoundDone(w)
    \/ \E w \in Workers : W_OpenFails(w)
    \/ \E w \in Workers : W_TransportErr(w)

SpecPool == PoolInit /\ [][PoolNext]_vars

\* the steps of main's accept loop
MainNext ==
    \/ Main_Accept
    \/ Main_AcceptErr
    \/ Main_IdleRecv
    \/ Main_Dispatch

\* the steps of a worker's thread outside a session, and the start of a
\* session
WorkerNext(w) ==
    \/ W_Announce(w)
    \/ W_TakeJob(w)
    \/ W_SendCatalog(w)

\* every thread runs whenever it is not blocked, and every session meets a
\* transport error (its client disconnects) unless it ended before
SpecPoolLive ==
    /\ SpecPool
    /\ WF_vars(MainNext)
    /\ \A w \in Workers : WF_vars(WorkerNext(w)) /\ WF_vars(W_TransportErr(w))

(***************************************************************************)
(* The codec on its own: a packet is sent into an empty stream and         *)
(* received from it.                                                       *)
(***************************************************************************)
\* names without a 0x00 byte: empty, "a", "b c" and U+00E9 in UTF-8
TestNames == {<<>>, <<97>>, <<98, 32, 99>>, <<195, 169>>}

\* sizes: 0, less than a chunk, 0x01020304 and the largest value a 32-bit signed integer holds
TestSizes == {0, 500, 16909060, 2147483647}

TestCatalogs ==
    UNION {[1..n -> [name : TestNames, size : TestSizes]] : n \in 0..MaxCatalogLen}

\* a chunk of every length Chunk::read can return
TestChunks ==
    {[len |-> l, data |-> [k \in 1..l |-> (k * 5 + l) % 256]] : l \in 0..ChunkSize}

\* the 16-bit headers with the end flag clear or set and a length field of 0
\* to 1024
TestHeaders ==
    {flag * EndFlag + l : flag \in {0, 1}, l \in 0..ChunkSize}

CodecInit ==
    /\ ConnAtRest
    /\ PoolAtRest
    /\ catalog = <<>>
    /\ t_pc = "send"
    /\ t_input \in {[kind |-> "catalog", packet |-> c] : c \in TestCatalogs}
                   \cup {[kind |-> "chunk", packet |-> c] : c \in TestChunks}
                   \cup {[kind |-> "header", packet |-> h] : h \in TestHeaders}
    /\ t_wire = <<>>
    /\ t_output = [status |-> "none"]

notCodec == <<connVars, poolVars>>

\* FileList::send
T_CatalogSend ==
    /\ t_pc = "send"
    /\ t_input.kind = "catalog"
    /\ LET r == FileList_send(t_input.packet)
       IN  /\ t_wire' = r.bytes
           /\ t_pc' = IF r.panic THEN "panicked" ELSE "recv"
    /\ UNCHANGED <<notCodec, t_input, t_output>>

\* FileList::recv on a stream that holds the whole packet
T_CatalogRecv ==
    /\ t_pc = "recv"
    /\ t_input.kind = "catalog"
    /\ LET r == FileList_recv(t_wire)
       IN  /\ r.ok
           /\ t_wire' = r.rest
           /\ t_output' = [status |-> "Ok", packet |-> r.list]
    /\ t_pc' = "done"
    /\ UNCHANGED <<notCodec, t_input>>

\* FileList::recv on the stream a sender that panicked closed: a read_exact
\* fails
T_CatalogRecvEof ==
    /\ t_pc = "panicked"
    /\ t_input.kind = "catalog"
    /\ ~FileList_recv(t_wire).ok
    /\ t_output' = [status |-> "Err"]
    /\ t_pc' = "done"
    /\ UNCHANGED <<notCodec, t_input, t_wire>>

\* Chunk::send
T_ChunkSend ==
    /\ t_pc = "send"
    /\ t_input.kind = "chunk"
    /\ t_wire' = Chunk_send(t_input.packet)
    /\ t_pc' = "recv"
    /\ UNCHANGED <<notCodec, t_input, t_output>>

\* Chunk::recv
T_ChunkRecv ==
    /\ t_pc = "recv"
    /\ t_input.kind = "chunk"
    /\ LET r == Chunk_recv(t_wire)
       IN  /\ r.ok
           /\ t_wire' = r.rest
           /\ t_output' = [status |-> "Ok", packet |-> r.chunk]
    /\ t_pc' = "done"
    /\ UNCHANGED <<notCodec, t_input>>

\* Chunk::recv on a stream that holds a header and 1024 bytes after it
T_HeaderRecv ==
    /\ t_pc = "send"
    /\ t_input.kind = "header"
    /\ \E r \in {Chunk_recv(to_be_bytes(t_input.packet, 2)
                              \o [k \in 1..ChunkSize |-> k % 256])} :
          /\ r.ok
          /\ t_wire' = r.rest
          /\ t_output' = [status |-> "Ok", packet |-> r.chunk]
    /\ t_pc' = "done"
    /\ UNCHANGED <<notCodec, t_input>>

CodecNext ==
    \/ T_CatalogSend
    \/ T_CatalogRecv
    \/ T_CatalogRecvEof
    \/ T_ChunkSend
    \/ T_ChunkRecv
    \/ T_HeaderRecv

SpecCodec == CodecInit /\ [][CodecNext]_vars

(***************************************************************************)
(* Properties of one connection (Spec).                                    *)
(***************************************************************************)
Files == 1..Len(catalog)

\* the client has received the catalog
ClientStarted == Len(c_files) = Len(catalog) /\ Len(catalog) > 0

\* the server has sent the catalog
ServerStarted == Len(s_files) = Len(catalog) /\ Len(catalog) > 0

\* C1: client and server stay in lockstep: every chunk is received while the
\* client services the index the server sent it for, and with the length it
\* was sent with; a file that is Done on the client holds exactly the bytes of
\* the server's file; and a side is between rounds only when every file with
\* a nonzero priority, hence every file the round activated, is Done.
C1_Lockstep ==
    /\ lockstep
    /\ ClientStarted =>
          \A i \in Files :
             /\ c_files[i].done =>
                   out[i].same /\ out[i].len = catalog[i].size
             /\ (c_pc = "round" /\ c_priorities[i] # 0) => c_files[i].done
    /\ ServerStarted =>
          \A i \in Files :
             (s_pc = "read" /\ s_priorities[i] # 0) => s_files[i].done

\* both files were transferred, one of them in several chunks, and both
\* sides are between rounds
C1_Witness ==
    /\ ClientStarted
    /\ c_pc = "round" /\ s_pc = "read"
    /\ \A i \in Files : c_files[i].done /\ s_files[i].done
    /\ \E i \in Files : catalog[i].size > ChunkSize
    /\ \E i \in Files : catalog[i].size = TailBytes

\* the rule of merge for one call: every slot, and the count returned
SlotRule(current, other, merged, count) ==
    /\ \A i \in 1..Len(current) :
          merged[i] = IF current[i] = 0 /\ other[i] # 0 THEN other[i]
                      ELSE current[i]
    /\ count = Cardinality({i \in 1..Len(current) :
                               current[i] = 0 /\ merged[i] # 0})

\* the step is the client's merge and send, the step is the server's read
\* and merge
ClientMerges == c_pc = "round" /\ Len(c2s') > Len(c2s)

ServerMerges == s_pc = "read" /\ Len(c2s') < Len(c2s)

\* C2: merge adopts a value only into a slot that is 0, leaves every other
\* slot as it is whatever other holds, and returns the number of slots that
\* went from 0 to nonzero; so no step of either side changes a slot of the
\* applied vector that is nonzero.
C2_MonotonicAdoption ==
    [][ /\ ClientMerges =>
              SlotRule(c_priorities, c_next_priorities', c_priorities',
                       c_to_download')
        /\ ServerMerges =>
              SlotRule(s_priorities, s_next_priorities', s_priorities',
                       s_to_download')
        /\ \A i \in 1..Len(c_priorities) :
              c_priorities[i] # 0 => c_priorities'[i] = c_priorities[i]
        /\ \A i \in 1..Len(s_priorities) :
              s_priorities[i] # 0 => s_priorities'[i] = s_priorities[i]
      ]_vars

\* the control file now asks another weight for a file that was adopted, and
\* the merge left the adopted weight; the server merged the same vector
C2_Witness ==
    /\ ClientStarted
    /\ \E i \in Files :
          /\ c_priorities[i] # 0
          /\ c_next_priorities[i] # 0
          /\ c_next_priorities[i] # c_priorities[i]
          /\ s_priorities[i] = c_priorities[i]
          /\ c_files[i].done
    /\ \E i \in Files : c_priorities[i] = 0

\* the chunk lengths a file of the given size is sent as
ExpectedLens(size) ==
    [k \in 1..(size \div ChunkSize + 1) |->
        IF k <= size \div ChunkSize THEN ChunkSize ELSE size % ChunkSize]

\* C8: the chunks sent for a file of S bytes are, in order, floor(S / 1024)
\* chunks of 1024 bytes and then one terminal chunk of S mod 1024 bytes: what
\* was sent so far is a prefix of that, the file is Done exactly when all of
\* it was sent, and nothing is sent after the terminal chunk.
C8_Chunking ==
    ServerStarted =>
       \A i \in Files :
          LET want == ExpectedLens(catalog[i].size)
          IN  /\ Len(s_sent[i]) <= Len(want)
              /\ s_sent[i] = SubSeq(want, 1, Len(s_sent[i]))
              /\ s_files[i].done <=> Len(s_sent[i]) = Len(want)

\* an empty file and a file of exactly one chunk were both transferred, and a
\* file of several chunks and a tail
C8_Witness ==
    /\ ServerStarted
    /\ \E i \in Files :
          s_files[i].done /\ catalog[i].size = 0 /\ s_sent[i] = <<0>>
    /\ \E i \in Files :
          s_files[i].done /\ catalog[i].size = ChunkSize
             /\ s_sent[i] = <<ChunkSize, 0>>

\* files i and j have the same size, were activated in the same round with
\* the priorities 1 and 4, and are Done on both sides
EqualPair(i, j) ==
    /\ catalog[i].size = catalog[j].size
    /\ s_priorities[i] = NORMAL /\ s_priorities[j] = HIGH
    /\ c_priorities[i] = NORMAL /\ c_priorities[j] = HIGH
    /\ s_round[i] = s_round[j] /\ c_round[i] = c_round[j]
    /\ s_files[i].done /\ s_files[j].done
    /\ c_files[i].done /\ c_files[j].done

\* C9 as stated: whatever the size, the file of priority 4 is Done in a pass
\* before the pass in which the file of priority 1 is Done.
C9_AnySize ==
    (ClientStarted /\ ServerStarted) =>
       \A i, j \in Files :
          EqualPair(i, j) =>
             s_donePass[j] < s_donePass[i] /\ c_donePass[j] < c_donePass[i]

\* C9 as amended: for files of at least 1024 bytes (two chunks or more) the
\* file of priority 4 is Done in a strictly earlier pass, on both sides; files
\* of less than 1024 bytes are both Done in the first pass of the round.
C9_WeightedService ==
    (ClientStarted /\ ServerStarted) =>
       \A i, j \in Files :
          EqualPair(i, j) =>
             IF catalog[i].size >= ChunkSize
             THEN s_donePass[j] < s_donePass[i] /\ c_donePass[j] < c_donePass[i]
             ELSE /\ s_donePass[j] = 0 /\ s_donePass[i] = 0
                  /\ c_donePass[j] = 0 /\ c_donePass[i] = 0

\* two files of several chunks each, the first with priority 1 and the second
\* with priority 4, were transferred in one round
C9_Witness ==
    /\ ClientStarted /\ ServerStarted
    /\ \E i, j \in Files :
          /\ EqualPair(i, j)
          /\ i < j
          /\ catalog[i].size > ChunkSize
          /\ c_donePass[j] = 1 /\ c_donePass[i] = MaxFullChunks

\* C10: after a round head that found the control file missing or unreadable
\* the client has not terminated.
C10_ControlFileRecovered ==
    ctl_seen \in {"missing", "unreadable"} => c_pc # "exited"

\* the number of chunks a file is sent as, the terminal chunk included
Want(i) == Len(ExpectedLens(catalog[i].size))

\* the chunks the client received for a file: every chunk but the terminal
\* one carries 1024 bytes, and the file is done once the terminal one came
Received(i) ==
    c_progress[i] \div ChunkSize + (IF c_files[i].done THEN 1 ELSE 0)

\* the chunks a file has exchanged when each visit of its round exchanged
\* min(priority, chunks still to send): after v visits, min(Want, p * v);
\* plus the k chunks of the quantum that is under way
Exchanged(i, p, current, between, pass, idx, inQuantum, k) ==
    IF p = 0 THEN 0
    ELSE IF between \/ ~current THEN Want(i)
    ELSE Min(Want(i), p * (pass + (IF i < idx THEN 1 ELSE 0)))
            + (IF inQuantum /\ i = idx THEN k ELSE 0)

\* C12: in every pass each index with priority p > 0 that is not Done
\* exchanges exactly min(p, chunks still to send) chunks, the indices with
\* priority 0 or Done exchange none, and the pass goes on to the next index
\* whether or not the file finished: at every point of a round the chunks
\* sent (received) for a file are the sum of these quanta over the visits made
\* so far, and a quantum under way has chunks left to exchange.
C12_Quantum ==
    /\ ServerStarted =>
          \A i \in Files :
             /\ Len(s_sent[i]) =
                   Exchanged(i, s_priorities[i], s_round[i] = Rounds(s_round),
                             s_pc \in {"read", "failed"}, s_pass, s_idx,
                             s_pc = "quantum", s_k)
             /\ (s_pc = "quantum" /\ i = s_idx) =>
                   s_k < Min(s_priorities[i],
                             Want(i) - Min(Want(i), s_priorities[i] * s_pass))
    /\ ClientStarted =>
          \A i \in Files :
             /\ Received(i) =
                   Exchanged(i, c_priorities[i], c_round[i] = Rounds(c_round),
                             c_pc \in {"round", "exited"}, c_pass, c_idx,
                             c_pc = "quantum", c_k)
             /\ (c_pc = "quantum" /\ i = c_idx) =>
                   c_k < Min(c_priorities[i],
                             Want(i) - Min(Want(i), c_priorities[i] * c_pass))

\* in the second pass of a round the first file, of priority 4 and more than
\* four chunks, has had two quanta of four and one chunk and is Done, the
\* pass stands at the second file, of priority 1, which has had one chunk
C12_Witness ==
    /\ ClientStarted /\ ServerStarted
    /\ Len(catalog) = 2
    /\ s_pc = "for" /\ s_idx = 2 /\ s_pass = 1
    /\ s_priorities = <<HIGH, NORMAL>>
    /\ Want(1) > HIGH /\ Want(2) > HIGH
    /\ Len(s_sent[1]) = Want(1) /\ s_files[1].done
    /\ Len(s_sent[2]) = 1

\* C13: after every merge the server's applied vector is the client's
\* applied vector, and the count the server's merge returned is the count the
\* client's merge returned for the same vector, whatever the control file
\* held at each round: the server's merge of a vector yields the list and the
\* count the client's merge yielded when it sent that vector, and whenever
\* the server has read every vector sent the two applied vectors are equal.
C13_VectorsAgree ==
    [][ /\ ServerMerges =>
              /\ s_priorities' = Head(c_merges).list
              /\ s_to_download' = Head(c_merges).modified
        /\ (ClientStarted' /\ ServerStarted' /\ c_merges' = <<>>) =>
              s_priorities' = c_priorities'
      ]_vars

\* a first round adopted one file; the control file then asked another
\* weight for it and a weight for the other file, and the server has merged
\* the vector of that second round
C13_Witness ==
    /\ ClientStarted /\ ServerStarted
    /\ c_merges = <<>>
    /\ \E i, j \in Files :
          /\ s_round[i] = 1 /\ s_round[j] = 2
          /\ c_next_priorities[i] # c_priorities[i]
          /\ s_priorities[i] = c_priorities[i]
          /\ s_priorities[j] = c_priorities[j]
          /\ s_pc = "for"

\* the rule of a round for one side: between rounds every file with a
\* nonzero priority is done and no handle is open; in a round the files that
\* have a nonzero priority and are not done are files the round's merge
\* activated, the counter is the number of them, and only such a file is in
\* its quantum
RoundRule(files, priorities, rounds, to_download, between, inQuantum, idx) ==
    LET live    == {i \in Files : priorities[i] # 0 /\ ~files[i].done}
        current == {i \in Files : rounds[i] = Rounds(rounds)}
    IN  /\ to_download >= 0
        /\ between =>
              /\ live = {}
              /\ \A i \in Files : ~files[i].open
        /\ ~between =>
              /\ live = {i \in current : ~files[i].done}
              /\ to_download = Cardinality(live)
              /\ \A i \in Files : files[i].open => i \in live
              /\ inQuantum => idx \in live

\* C14: at the start of a round every index with a nonzero applied priority
\* is Done and no file handle is open; in a round the files serviced are
\* those the round's merge activated; and the activation counter is the
\* number of activated files not yet Done, so it is decremented once per
\* activated file and never below zero.
C14_RoundBoundary ==
    /\ ServerStarted =>
          RoundRule(s_files, s_priorities, s_round, s_to_download,
                    s_pc \in {"read", "failed"}, s_pc = "quantum", s_idx)
    /\ ClientStarted =>
          RoundRule(c_files, c_priorities, c_round, c_to_download,
                    c_pc \in {"round", "exited"}, c_pc = "quantum", c_idx)

\* a second round is under way on both sides: the file of the first round is
\* Done, the file the second round activated is in its quantum
C14_Witness ==
    /\ ClientStarted /\ ServerStarted
    /\ \E i, j \in Files :
          /\ s_round[i] = 1 /\ s_round[j] = 2
          /\ s_files[i].done /\ c_files[i].done
          /\ s_pc = "quantum" /\ s_idx = j /\ s_files[j].open
          /\ c_pc = "quantum" /\ c_idx = j /\ c_files[j].open
          /\ s_to_download = 1 /\ c_to_download = 1

\* the state of a file on one side
FileState(handler) ==
    CASE handler.done /\ ~handler.open  -> "Done"
      [] ~handler.done /\ handler.open  -> "Active"
      [] ~handler.done /\ ~handler.open -> "Idle"
      [] OTHER                          -> "DoneOpen"

\* the steps a file may take on one side: it stays as it is, a file that is
\* Idle and has a nonzero priority is opened at its start, or a file that is
\* Active is released and Done; a handle that stays open is the same handle,
\* its position does not go back
FileSteps(files, after, priorities) ==
    \A i \in 1..Len(files) :
       LET from == FileState(files[i])
           to   == FileState(after[i])
       IN  /\ <<from, to>> \in {<<"Idle", "Idle">>, <<"Idle", "Active">>,
                                <<"Active", "Active">>, <<"Active", "Done">>,
                                <<"Done", "Done">>}
           /\ (from = "Idle" /\ to = "Active") =>
                 priorities[i] # 0 /\ files[i].pos = 0 /\ after[i].pos = 0
           /\ (from = "Active" /\ to = "Active") => after[i].pos >= files[i].pos
           /\ to = "Active" => priorities[i] # 0
           /\ from = to /\ from # "Active" => after[i] = files[i]

\* C15: on each side a file moves only Idle -> Active -> Done; it is opened
\* at most once, when it has a nonzero priority and is first serviced, and
\* released once, on Active -> Done; Done is never left; and a handle is open
\* only of a file that is not Done and has a nonzero priority.
C15_FileStateMachine ==
    [][ /\ Len(s_files) = Len(s_files') => FileSteps(s_files, s_files', s_priorities)
        /\ Len(c_files) = Len(c_files') => FileSteps(c_files, c_files', c_priorities)
        /\ \A i \in 1..Len(s_files') : FileState(s_files'[i]) = "Idle"
                                            => s_sent'[i] = <<>>
        /\ \A i \in 1..Len(c_files') : FileState(c_files'[i]) = "Idle"
                                            => c_progress'[i] = 0
      ]_vars

\* a file of several chunks and priority 1 is Done on both sides after
\* several passes, the other file was never asked for and is Idle
C15_Witness ==
    /\ ClientStarted /\ ServerStarted
    /\ \E i, j \in Files :
          /\ FileState(s_files[i]) = "Done" /\ FileState(c_files[i]) = "Done"
          /\ s_priorities[i] = NORMAL /\ s_donePass[i] > 1
          /\ FileState(s_files[j]) = "Idle" /\ FileState(c_files[j]) = "Idle"
          /\ s_priorities[j] = 0

\* the bytes of file i that the first n chunks on the wire carry
RECURSIVE WireBytes(_, _)
WireBytes(i, n) ==
    IF n = 0 THEN 0
    ELSE WireBytes(i, n - 1) + (IF wire[n].idx = i THEN wire[n].len ELSE 0)

\* C16: on the wire of a session the chunks of one index come at increasing
\* file offsets with no gap and no duplicate (each starts where the chunks
\* of that index before it end, and only the last may be short), and within
\* one pass the chunks of index i all come before the chunks of index j
\* whenever i < j; passes come in order.
C16_WireOrder ==
    \A b \in 1..Len(wire) :
       /\ wire[b].off = WireBytes(wire[b].idx, b - 1)
       /\ \A a \in 1..(b - 1) :
             /\ wire[a].idx = wire[b].idx => wire[a].len = ChunkSize
             /\ wire[a].round <= wire[b].round
             /\ wire[a].round = wire[b].round => wire[a].pass <= wire[b].pass
             /\ (wire[a].round = wire[b].round /\ wire[a].pass = wire[b].pass)
                   => wire[a].idx <= wire[b].idx

\* two files of several chunks were sent in one round of several passes,
\* their chunks interleaved pass by pass
C16_Witness ==
    /\ Len(wire) >= 6
    /\ \E a, b, c \in 1..Len(wire) :
          /\ a < b /\ b < c
          /\ wire[a].idx = 1 /\ wire[b].idx = 2 /\ wire[c].idx = 1
          /\ wire[a].pass = 0 /\ wire[b].pass = 0 /\ wire[c].pass = 1
          /\ wire[a].round = wire[c].round
          /\ wire[c].off = wire[a].off + ChunkSize

\* C18: with finite files and no I/O error every round ends on both sides:
\* a client that is in a round comes back to the head of its round loop, to
\* read the control file, and a server that is in a round comes back to the
\* read of the next vector.
C18_RoundTermination ==
    /\ (c_pc \in {"for", "quantum"}) ~> (c_pc = "round")
    /\ (s_pc \in {"for", "quantum"}) ~> (s_pc = "read")

\* a round that took several passes has ended on both sides
C18_Witness ==
    /\ ClientStarted /\ ServerStarted
    /\ c_pc = "round" /\ s_pc = "read"
    /\ c_pass > 1 /\ s_pass > 1
    /\ c_to_download = 0 /\ s_to_download = 0

(***************************************************************************)
(* Properties of the worker pool (SpecPool).                               *)
(***************************************************************************)
Serving == {c \in Conns : conn[c] = "serving"}

Handed == {c \in Conns : conn[c] \in {"queued", "serving"}}

\* C3: at most NumWorkers sessions execute; a connection is in a job channel
\* only of a worker that announced itself idle and waits for a job; and while
\* NumWorkers sessions execute no connection is in a job channel and main
\* holds no worker id.
C3_PoolBound ==
    /\ Cardinality(Serving) <= NumWorkers
    /\ Cardinality(Handed) <= NumWorkers
    /\ \A w \in Workers : jobs[w] # <<>> => w_pc[w] = "recv"
    /\ Cardinality(Serving) = NumWorkers =>
          /\ \A c \in Conns : conn[c] # "queued"
          /\ main_pc # "send"

\* every worker executes a session and main, holding one more connection,
\* waits on the empty idle channel
C3_Witness ==
    /\ Cardinality(Serving) = NumWorkers
    /\ main_pc = "recv"
    /\ stream # 0
    /\ idle = <<>>

\* C4: every worker thread is alive in every reachable state.
C4_WorkersAlive == \A w \in Workers : w_pc[w] # "dead"

\* C5: a session that ends with a transport error makes execute return; the
\* worker then sends its id once (it has sent one id per returned session and
\* one at its start), waits for its next job, and neither its thread nor main
\* ends.
C5_ErrorReturnsToIdle ==
    /\ \A w \in Workers :
          /\ w_pc[w] = "returned" => w_announced[w] = w_errs[w]
          /\ w_pc[w] \in {"recv"} \cup Executing =>
                w_announced[w] = w_errs[w] + 1
          /\ w_last[w] = "err" => w_pc[w] # "dead"
          /\ (w_last[w] = "err" /\ w_pc[w] = "recv" /\ jobs[w] = <<>>) =>
                \/ \E k \in 1..Len(idle) : idle[k] = w
                \/ worker_id = w
    /\ main_pc # "panicked"

\* a worker whose session ended with a transport error executes a later
\* connection
C5_Witness ==
    \E w \in Workers :
       /\ w_errs[w] = 1
       /\ w_last[w] = "err"
       /\ w_pc[w] \in Executing
       /\ w_announced[w] = 2

\* the connections main accepted and no worker took yet: held by main, or in
\* a job channel
Accepted == {c \in Conns : conn[c] = "accepted"}

Queued == {c \in Conns : conn[c] = "queued"}

\* C11 as stated: while every worker executes a session, no connection is
\* accepted and not yet dispatched.
C11_NoneHeld ==
    Cardinality(Serving) = NumWorkers => Accepted = {}

\* C11 as amended: main holds at most one accepted connection, the one it
\* waits to dispatch; while every worker executes a session that connection
\* is the only one inside the process that no worker executes (none is in a
\* job channel, main waits on the idle channel), and every other connection
\* that is established is in the listen backlog.
C11_Backpressure ==
    /\ Cardinality(Accepted) <= 1
    /\ \A c \in Accepted : stream = c /\ main_pc \in {"recv", "send"}
    /\ Cardinality(Serving) = NumWorkers =>
          /\ Queued = {}
          /\ Accepted # {} => main_pc = "recv"
          /\ \A c \in Conns :
                conn[c] \notin {"new", "aborted", "closed", "serving"} =>
                   \/ c \in Accepted
                   \/ \E k \in 1..Len(backlog) : backlog[k] = c

\* every worker executes a session, main holds one more connection and waits
\* on the idle channel, and a further connection waits in the listen backlog
C11_Witness ==
    /\ Cardinality(Serving) = NumWorkers
    /\ Cardinality(Accepted) = 1
    /\ main_pc = "recv"
    /\ backlog # <<>>

\* the places of the idle channel that hold the id of worker w
IdleAt(w) == {k \in 1..Len(idle) : idle[k] = w}

\* C17: the job channel of a worker holds at most one connection; main sends
\* a connection only to the worker whose id it took from the idle channel,
\* which waits for a job and has none pending; and a worker's id is in the
\* idle channel at most once, and not at all while main holds it or the
\* worker has a job.
C17_JobQueue ==
    /\ \A w \in Workers :
          /\ Len(jobs[w]) <= 1
          /\ Cardinality(IdleAt(w)) <= 1
          /\ IdleAt(w) # {} =>
                /\ w_pc[w] = "recv" /\ jobs[w] = <<>>
                /\ ~(main_pc = "send" /\ worker_id = w)
    /\ main_pc = "send" =>
          /\ worker_id \in Workers
          /\ w_pc[worker_id] = "recv"
          /\ jobs[worker_id] = <<>>
          /\ stream \in Accepted

\* a connection is pending in the job channel of one worker while main is
\* about to send the next connection to another worker
C17_Witness ==
    /\ main_pc = "send"
    /\ \E w \in Workers :
          /\ w # worker_id
          /\ Len(jobs[w]) = 1
          /\ w_pc[w] = "recv"

(***************************************************************************)
(* Properties of the codec (SpecCodec).                                    *)
(***************************************************************************)
\* C6: a catalog that was sent and received is received as it was sent.
C6_CatalogRoundTrip ==
    (t_input.kind = "catalog" /\ t_pc = "done") =>
       /\ t_output.status = "Ok"
       /\ t_output.packet = t_input.packet
       /\ t_wire = <<>>

\* C7: a chunk of any length from 0 to 1024 that was sent and received is
\* received with its length and its bytes, nothing is left in the stream, and
\* the received chunk is terminal exactly when the length is less than 1024.
C7_ChunkRoundTrip ==
    (t_input.kind = "chunk" /\ t_pc = "done") =>
       /\ t_output.status = "Ok"
       /\ t_output.packet.len = t_input.packet.len
       /\ t_output.packet.data = t_input.packet.data
       /\ t_wire = <<>>
       /\ Chunk_end(t_output.packet) <=> t_input.packet.len < 1024

\* a chunk of 1023 bytes went through
C7_Witness ==
    /\ t_input.kind = "chunk"
    /\ t_pc = "done"
    /\ t_input.packet.len = 1023
    /\ t_output.packet.len = 1023

C20_DispatchLiveness ==
    \A c \in Conns : (conn[c] = "accepted") ~> (conn[c] = "serving")

====
